---- MODULE Spec2Model ----
(***************************************************************************)
(* Request handlers of notebooklm-tools: the documentation resolver        *)
(* (llmstxt action with its generation pipeline) and the two feed          *)
(* resolvers (RSS feed, Hacker News).  One request is handled per          *)
(* behaviour; every step is the code between two awaits of its handler.    *)
(***************************************************************************)
EXTENDS Integers, Sequences, FiniteSets, TLC

VARIABLES
    tool,              \* which route's action handles the request
    pc,                \* position of the handler
    siteUrlRaw,        \* formData.get("siteUrl")
    firecrawlApiKey,   \* formData.get("firecrawlApiKey")
    openrouterApiKey,  \* formData.get("openrouterApiKey")
    maxUrlsRaw,        \* formData.get("maxUrls")
    maxUrls,           \* the maxUrls parameter of generateLLMsFullTxt
    urls,              \* the list returned by mapWebsite
    limitedUrls,       \* urls.slice(0, maxUrls)
    i,                 \* loop index of the per-URL loop (0-based)
    scraped,           \* markdown of the page scraped in this iteration
    results,           \* the results array of generateLLMsFullTxt
    feedUrlRaw,        \* formData.get("feedUrl") of the RSS feed route
    limitRaw,          \* formData.get("limit") / formData.get("storyCount")
    limit,             \* the effective item limit of a feed resolver
    itemCount,         \* items.length of the parsed feed
    index,             \* loop index of the per-item loop (0-based)
    articleContent,    \* what fetchArticleContent returned last
    entries,           \* the entries array of a feed resolver
    archive,           \* the archive built by buildArchive
    repoUrl,           \* the text of the URL field of the GitHub route
    fileChosen,        \* a file is chosen in the upload field
    repoInfo,          \* the repoInfo handed to processZip
    inputZip,          \* Object.entries(inputZip.files)
    pos,               \* loop index of the loop over the members (0-based)
    stats,             \* stats of processZip
    processedFiles,    \* processedFiles of processZip
    outputZip,         \* the members of outputZip
    isProcessing,      \* state of the component
    error,             \* state of the component
    successData,       \* state of the component
    downloadUrl,       \* state of the component
    bundleManifest,    \* manifest of processZip
    feedItem,          \* a feed item whose body is being chosen
    rawHtml,           \* rawHtml of the feed loop for that item
    runs,              \* the conversions of one mounted component: the
                       \* locals of each processZip call and its position
    calls,             \* outbound calls, reads of their bodies and delays so
                       \* far, in order
    result             \* the Response returned by the action

docVars == <<siteUrlRaw, firecrawlApiKey, openrouterApiKey, maxUrlsRaw,
             maxUrls, urls, limitedUrls, i, scraped, results>>

feedVars == <<feedUrlRaw, limitRaw, limit, itemCount, index, articleContent,
              entries, archive>>

ghVars == <<repoUrl, fileChosen, repoInfo, inputZip, pos, stats,
            processedFiles, outputZip, isProcessing, error, successData,
            downloadUrl, bundleManifest>>

sideVars == <<feedItem, rawHtml, runs>>

vars == <<tool, pc, docVars, feedVars, ghVars, sideVars, calls, result>>

-----------------------------------------------------------------------------
(* Bounds of the model *)

\* longest URL list whose per-page outcomes are all explored
MaxMapped == 3

\* most items of a parsed feed whose items are all explored
MaxItems == 2

\* most members of an input zip
MaxMembers == 2

\* the page cap of the documentation resolver: Math.min(maxUrls, 50)
MAX_URLS_CAP == 50

\* the default of maxUrls: Number.parseInt(...) || 20
DEFAULT_MAX_URLS == 20

-----------------------------------------------------------------------------
(* Form fields.  A field is absent (formData.get gives null) or a string,  *)
(* a sequence of one-character strings.                                    *)

Null == [present |-> FALSE, text |-> <<>>]

Str(s) == [present |-> TRUE, text |-> s]

IsString(f) == f.present

Whitespace == {" "}

RECURSIVE TrimStart(_)
TrimStart(s) ==
    IF s # <<>> /\ Head(s) \in Whitespace THEN TrimStart(Tail(s)) ELSE s

RECURSIVE TrimEnd(_)
TrimEnd(s) ==
    IF s # <<>> /\ s[Len(s)] \in Whitespace
    THEN TrimEnd(SubSeq(s, 1, Len(s) - 1))
    ELSE s

\* String.prototype.trim
Trim(s) == TrimEnd(TrimStart(s))

Digits == {"0", "1", "2", "3", "4", "5", "6", "7", "8", "9"}

DigitVal(c) ==
    CASE c = "0" -> 0 [] c = "1" -> 1 [] c = "2" -> 2 [] c = "3" -> 3
      [] c = "4" -> 4 [] c = "5" -> 5 [] c = "6" -> 6 [] c = "7" -> 7
      [] c = "8" -> 8 [] c = "9" -> 9

NaN == [nan |-> TRUE, val |-> 0]

Num(n) == [nan |-> FALSE, val |-> n]

RECURSIVE DigitPrefix(_, _)
\* value of the longest prefix of digits of s, continuing from acc
DigitPrefix(s, acc) ==
    IF s # <<>> /\ Head(s) \in Digits
    THEN DigitPrefix(Tail(s), 10 * acc + DigitVal(Head(s)))
    ELSE acc

\* Number.parseInt(text, 10) of a string
ParseIntText(s) ==
    LET t == TrimStart(s)
        neg == t # <<>> /\ Head(t) = "-"
        signed == t # <<>> /\ Head(t) \in {"-", "+"}
        d == IF signed THEN Tail(t) ELSE t
    IN  IF d = <<>> \/ Head(d) \notin Digits
        THEN NaN
        ELSE Num(IF neg THEN 0 - DigitPrefix(d, 0) ELSE DigitPrefix(d, 0))

\* Number.parseInt(field as string, 10): null is converted to "null"
ParseInt(f) == IF IsString(f) THEN ParseIntText(f.text) ELSE NaN

Min(a, b) == IF a <= b THEN a ELSE b

Max(a, b) == IF a >= b THEN a ELSE b

\* new URL(text) succeeds: the parser strips the blanks around the text; "h"
\* stands for the origin of an absolute http(s) URL, and a text that does not
\* start with it is one the URL parser rejects
UrlParses(s) == Trim(s) # <<>> /\ Head(Trim(s)) = "h"

-----------------------------------------------------------------------------
(* Inputs *)

SiteUrlInputs == {Null, Str(<<>>), Str(<<" ">>), Str(<<"x">>), Str(<<"h">>),
                  Str(<<" ", "h">>)}

ApiKeyInputs == {Null, Str(<<>>), Str(<<" ">>), Str(<<"k">>)}

MaxUrlsInputs ==
    {Null, Str(<<>>), Str(<<"a">>), Str(<<"0">>), Str(<<"-", "1">>),
     Str(<<"-", "2">>), Str(<<"1">>), Str(<<"2">>), Str(<<"2", ".", "9">>),
     Str(<<"5", "0">>), Str(<<"5", "1">>), Str(<<"9", "9">>)}

\* lengths of the URL list the mapping service may return: short lists, and
\* one list longer than the page cap
MappedLens == (0 .. MaxMapped) \cup {MAX_URLS_CAP + 2}

-----------------------------------------------------------------------------
(* Results *)

NoResult ==
    [ok |-> FALSE, status |-> 0, source |-> "", error |-> "",
     requiresGeneration |-> FALSE, noFullTxt |-> FALSE, processedCount |-> 0,
     totalEntries |-> 0, extractedEntries |-> 0]

Failure(st, msg) == [NoResult EXCEPT !.status = st, !.error = msg]

\* an entry of the trace: the operation, its argument (a URL of the list, a
\* limit, a delay in ms) and what came back
Call(op, arg, res) == [op |-> op, arg |-> arg, res |-> res]

-----------------------------------------------------------------------------
(* Responses of the outside world *)

\* a GET of a well-known document path: fetch throws, or a response whose
\* body read may throw
Resp(thrown, ok, bodyThrows, body) ==
    [thrown |-> thrown, ok |-> ok, bodyThrows |-> bodyThrows, body |-> body]

ProbeResponses ==
    {Resp(TRUE, FALSE, FALSE, <<>>),        \* network error
     Resp(FALSE, FALSE, FALSE, <<"d">>),    \* 404 page
     Resp(FALSE, TRUE, TRUE, <<>>),         \* body read fails
     Resp(FALSE, TRUE, FALSE, <<>>),        \* 200, empty
     Resp(FALSE, TRUE, FALSE, <<" ">>),     \* 200, only whitespace
     Resp(FALSE, TRUE, FALSE, <<"d">>),     \* 200, a document
     Resp(FALSE, TRUE, FALSE, <<" ", "d">>)}

\* what the site answered, as the trace records it: a 2xx response whose body
\* holds a character that is not whitespace
Delivered(resp) ==
    /\ ~resp.thrown
    /\ resp.ok
    /\ ~resp.bodyThrows
    /\ \E k \in 1 .. Len(resp.body) : resp.body[k] \notin Whitespace

\* the mapping service: kind is "throw" (fetch or json throws), "non2xx",
\* "nolinks" (success false or links missing) or "links" with n links
MapResp(kind, n) == [kind |-> kind, n |-> n]

MapResponses ==
    {MapResp("throw", 0), MapResp("non2xx", 0), MapResp("nolinks", 0)}
        \cup {MapResp("links", n) : n \in MappedLens}

\* the scrape service: kind is "throw", "non2xx", "nodata" (success false or
\* data missing) or "data" with its markdown ("" when missing)
ScrapeResp(kind, markdown) == [kind |-> kind, markdown |-> markdown]

AllScrapeResponses ==
    {ScrapeResp("throw", <<>>), ScrapeResp("non2xx", <<>>),
     ScrapeResp("nodata", <<>>), ScrapeResp("data", <<>>),
     ScrapeResp("data", <<"m">>)}

\* the annotation service: kind is "throw", "non2xx", "nocontent" (no
\* choices[0].message.content), "badjson" (content is no JSON object) or
\* "json" with the title and description of the object ("" when missing)
AnnotResp(kind, title, description) ==
    [kind |-> kind, title |-> title, description |-> description]

AllAnnotResponses ==
    {AnnotResp("throw", "", ""), AnnotResp("non2xx", "", ""),
     AnnotResp("nocontent", "", ""), AnnotResp("badjson", "", ""),
     AnnotResp("json", "", ""), AnnotResp("json", "T", ""),
     AnnotResp("json", "", "D"), AnnotResp("json", "T", "D")}

\* per-page outcomes are explored in full for lists of up to MaxMapped URLs;
\* every page of a longer list is scraped and annotated without failure
ScrapeResponses(n) ==
    IF n <= MaxMapped THEN AllScrapeResponses
    ELSE {ScrapeResp("data", <<"m">>)}

AnnotResponses(n) ==
    IF n <= MaxMapped THEN AllAnnotResponses
    ELSE {AnnotResp("json", "T", "D")}

-----------------------------------------------------------------------------
(* Pure parts of the documentation resolver *)

\* the test both probes make of their response
ProbeFound(resp) ==
    /\ ~resp.thrown
    /\ resp.ok
    /\ ~resp.bodyThrows
    /\ Len(Trim(resp.body)) > 0

hasApiKeys(fk, ok) ==
    /\ IsString(fk)
    /\ Len(Trim(fk.text)) > 0
    /\ IsString(ok)
    /\ Len(Trim(ok.text)) > 0

\* Number.parseInt(maxUrlsRaw as string, 10) || 20
ParsedMaxUrls(raw) ==
    LET p == ParseInt(raw)
    IN  IF p.nan \/ p.val = 0 THEN DEFAULT_MAX_URLS ELSE p.val

\* the fourth argument of generateLLMsFullTxt
MaxUrlsArg(raw) == Min(ParsedMaxUrls(raw), MAX_URLS_CAP)

\* Array.prototype.slice(0, end)
Slice0(s, end) ==
    LET k == IF end < 0 THEN Max(Len(s) + end, 0) ELSE Min(end, Len(s))
    IN  SubSeq(s, 1, k)

\* scrapeUrl: null, or the page's markdown
scrapeUrl(resp) ==
    IF resp.kind = "data"
    THEN [null |-> FALSE, markdown |-> resp.markdown]
    ELSE [null |-> TRUE, markdown |-> <<>>]

\* the loop's test `!scraped || !scraped.markdown`
Skipped(sc) == sc.null \/ sc.markdown = <<>>

PLACEHOLDER_TITLE == "Page"

PLACEHOLDER_DESCRIPTION == "No description available"

\* generateDescription without its placeholders
generateDescription_NoPlaceholder(resp) ==
    [title |-> resp.title, description |-> resp.description]

generateDescription(resp) ==
    IF resp.kind = "json"
    THEN [title |-> IF resp.title # "" THEN resp.title ELSE PLACEHOLDER_TITLE,
          description |-> IF resp.description # "" THEN resp.description
                          ELSE PLACEHOLDER_DESCRIPTION]
    ELSE [title |-> PLACEHOLDER_TITLE, description |-> PLACEHOLDER_DESCRIPTION]

\* the success response of the generation branch
Generated(res) ==
    [NoResult EXCEPT !.ok = TRUE, !.status = 200, !.source = "generated",
                     !.processedCount = Len(res)]

GenerationFailed(msg) ==
    Failure(500, "Failed to generate llms-full.txt: " \o msg)

Found(source, short) ==
    [NoResult EXCEPT !.ok = TRUE, !.status = 200, !.source = source,
                     !.noFullTxt = short]

\* NotFound without the retry hint
NotFound_NoFlag ==
    [NoResult EXCEPT !.status = 404,
                     !.error = "No llms-full.txt or llms.txt found"]

NotFound ==
    [NoResult EXCEPT !.status = 404,
                     !.error = "No llms-full.txt or llms.txt found",
                     !.requiresGeneration = TRUE]

-----------------------------------------------------------------------------
(* The documentation resolver: action of the llmstxt route *)

\* generateLLMsFullTxt after its loop: build the documents and return; the
\* action wraps them in its success response
LoopExit(res) ==
    /\ result' = Generated(res)
    /\ pc' = "done"

\* NextUrl with `break` in the place of `continue`
NextUrl_Break(res) ==
    /\ LoopExit(res)
    /\ UNCHANGED i

\* NextUrl that stays on the URL whose scrape gave nothing
NextUrl_Retry(res) ==
    IF i + 1 < Len(limitedUrls)
    THEN /\ pc' = "scrape"
         /\ UNCHANGED <<i, result>>
    ELSE /\ LoopExit(res)
         /\ UNCHANGED i

\* the end of one iteration that pushed no delay: next URL, or loop exit
NextUrl(res) ==
    IF i + 1 < Len(limitedUrls)
    THEN /\ i' = i + 1
         /\ pc' = "scrape"
         /\ UNCHANGED result
    ELSE /\ LoopExit(res)
         /\ UNCHANGED i

\* lines 909-930: read the form, validate siteUrl
LlmsValidate ==
    /\ tool = "llmstxt"
    /\ pc = "start"
    /\ IF ~IsString(siteUrlRaw) \/ Len(Trim(siteUrlRaw.text)) = 0
       THEN /\ result' = Failure(400, "Please enter a website URL.")
            /\ pc' = "done"
       ELSE IF ~UrlParses(Trim(siteUrlRaw.text))
       THEN /\ result' = Failure(422, "That doesn't look like a valid URL.")
            /\ pc' = "done"
       ELSE /\ pc' = "probeFull"
            /\ UNCHANGED result
    /\ UNCHANGED <<tool, sideVars, feedVars, ghVars, siteUrlRaw,
                   firecrawlApiKey, openrouterApiKey, maxUrlsRaw, maxUrls,
                   urls, limitedUrls, i, scraped, results, calls>>

\* FullProbeBranch with the credentials tested before the probe's result
FullProbeBranch_KeysFirst(found, keys) ==
    IF keys THEN "generate" ELSE IF found THEN "return" ELSE "probeShort"

\* FullProbeBranch falling back to /llms.txt whatever the credentials
FullProbeBranch_ShortFirst(found, keys) ==
    IF found THEN "return" ELSE "probeShort"

\* lines 944-992 and 1046: what follows the /llms-full.txt probe
FullProbeBranch(found, keys) ==
    IF found THEN "return" ELSE IF keys THEN "generate" ELSE "probeShort"

\* lines 932-1001: GET /llms-full.txt; on failure choose between generation
\* and the /llms.txt probe
LlmsProbeFull ==
    /\ tool = "llmstxt"
    /\ pc = "probeFull"
    /\ \E resp \in ProbeResponses :
        LET branch == FullProbeBranch(ProbeFound(resp),
                          hasApiKeys(firecrawlApiKey, openrouterApiKey))
        IN  /\ calls' = Append(calls, Call("GET /llms-full.txt", 0,
                               IF Delivered(resp) THEN "document" ELSE "none"))
            /\ IF branch = "return"
               THEN /\ result' = Found("llms-full.txt", FALSE)
                    /\ pc' = "done"
                    /\ UNCHANGED maxUrls
               ELSE IF branch = "generate"
               THEN /\ maxUrls' = MaxUrlsArg(maxUrlsRaw)
                    /\ pc' = "map"
                    /\ UNCHANGED result
               ELSE /\ pc' = "probeShort"
                    /\ UNCHANGED <<result, maxUrls>>
    /\ UNCHANGED <<tool, sideVars, feedVars, ghVars, siteUrlRaw,
                   firecrawlApiKey, openrouterApiKey, maxUrlsRaw, urls,
                   limitedUrls, i, scraped, results>>

\* lines 847-866 with mapWebsite (702-730); a throw is caught at 1035
MapWebsite ==
    /\ tool = "llmstxt"
    /\ pc = "map"
    /\ \E resp \in MapResponses :
        LET links == IF resp.kind = "links" THEN [k \in 1 .. resp.n |-> k]
                     ELSE <<>>
        IN  /\ calls' = Append(calls, Call("map", maxUrls, resp.kind))
            /\ IF resp.kind = "throw"
               THEN /\ result' = GenerationFailed("fetch failed")
                    /\ pc' = "done"
                    /\ UNCHANGED <<urls, limitedUrls, i>>
               ELSE IF resp.kind = "non2xx"
               THEN /\ result' = GenerationFailed("Firecrawl map failed")
                    /\ pc' = "done"
                    /\ UNCHANGED <<urls, limitedUrls, i>>
               ELSE IF Len(links) = 0
               THEN /\ result' = GenerationFailed("No URLs found for the website")
                    /\ pc' = "done"
                    /\ UNCHANGED <<urls, limitedUrls, i>>
               ELSE /\ urls' = links
                    /\ limitedUrls' = Slice0(links, maxUrls)
                    /\ i' = 0
                    /\ IF Len(limitedUrls') > 0
                       THEN pc' = "scrape" /\ UNCHANGED result
                       ELSE LoopExit(results)
    /\ UNCHANGED <<tool, sideVars, feedVars, ghVars, siteUrlRaw,
                   firecrawlApiKey, openrouterApiKey, maxUrlsRaw, maxUrls,
                   scraped, results>>

\* lines 867-872 with scrapeUrl (735-769)
ScrapeUrl ==
    /\ tool = "llmstxt"
    /\ pc = "scrape"
    /\ \E resp \in ScrapeResponses(Len(urls)) :
        LET sc == scrapeUrl(resp)
        IN  /\ calls' = Append(calls, Call("scrape", limitedUrls[i + 1],
                   IF resp.kind = "data" /\ resp.markdown # <<>>
                   THEN "page" ELSE "none"))
            /\ IF Skipped(sc)
               THEN /\ NextUrl(results)
                    /\ UNCHANGED scraped
               ELSE /\ scraped' = sc.markdown
                    /\ pc' = "annotate"
                    /\ UNCHANGED <<i, result>>
    /\ UNCHANGED <<tool, sideVars, feedVars, ghVars, siteUrlRaw,
                   firecrawlApiKey, openrouterApiKey, maxUrlsRaw, maxUrls,
                   urls, limitedUrls, results>>

\* lines 874-891 with generateDescription (774-835)
GenerateDescription ==
    /\ tool = "llmstxt"
    /\ pc = "annotate"
    /\ \E resp \in AnnotResponses(Len(urls)) :
        LET d == generateDescription(resp)
            pushed == Append(results,
                             [url |-> limitedUrls[i + 1], title |-> d.title,
                              description |-> d.description,
                              markdown |-> scraped, index |-> i])
        IN  /\ calls' = Append(calls, Call("annotate", limitedUrls[i + 1],
                   IF resp.kind = "json" THEN "answer" ELSE "failure"))
            /\ results' = pushed
            /\ IF i < Len(limitedUrls) - 1
               THEN /\ pc' = "delay"
                    /\ UNCHANGED result
               ELSE LoopExit(pushed)
    /\ UNCHANGED <<tool, sideVars, feedVars, ghVars, siteUrlRaw,
                   firecrawlApiKey, openrouterApiKey, maxUrlsRaw, maxUrls,
                   urls, limitedUrls, i, scraped>>

DELAY_MS == 500

\* line 890, and the loop's i++
Delay ==
    /\ tool = "llmstxt"
    /\ pc = "delay"
    /\ calls' = Append(calls, Call("delay", DELAY_MS, "elapsed"))
    /\ i' = i + 1
    /\ pc' = "scrape"
    /\ UNCHANGED <<tool, sideVars, feedVars, ghVars, siteUrlRaw,
                   firecrawlApiKey, openrouterApiKey, maxUrlsRaw, maxUrls,
                   urls, limitedUrls, scraped, results, result>>

\* lines 1048-1109: GET /llms.txt, then the terminal failure
LlmsProbeShort ==
    /\ tool = "llmstxt"
    /\ pc = "probeShort"
    /\ \E resp \in ProbeResponses :
        /\ calls' = Append(calls, Call("GET /llms.txt", 0,
                               IF Delivered(resp) THEN "document" ELSE "none"))
        /\ result' = IF ProbeFound(resp) THEN Found("llms.txt", TRUE)
                     ELSE NotFound
        /\ pc' = "done"
    /\ UNCHANGED <<tool, sideVars, feedVars, ghVars, siteUrlRaw,
                   firecrawlApiKey, openrouterApiKey, maxUrlsRaw, maxUrls,
                   urls, limitedUrls, i, scraped, results>>

-----------------------------------------------------------------------------
(* The feed resolvers: action of the RSS feed route and of the Hacker News  *)
(* route                                                                    *)

MAX_LIMIT == 40

DEFAULT_LIMIT == 15

\* safeTitle.slice(0, 48) of createEntryId
SLUG_LENGTH == 48

FeedUrlInputs == {Null, Str(<<>>), Str(<<" ">>), Str(<<"x">>), Str(<<"h">>)}

LimitInputs ==
    {Null, Str(<<>>), Str(<<"a">>), Str(<<"0">>), Str(<<"-", "1">>),
     Str(<<"1">>), Str(<<"2">>), Str(<<"2", ".", "9">>), Str(<<"4", "0">>),
     Str(<<"4", "1">>)}

\* Number.parseInt(typeof limitRaw === "string" ? limitRaw : "", 10), clamped
EffectiveLimit(raw) ==
    LET parsedLimit == ParseIntText(IF IsString(raw) THEN raw.text ELSE <<>>)
    IN  IF ~parsedLimit.nan
        THEN Min(Max(parsedLimit.val, 1), MAX_LIMIT)
        ELSE DEFAULT_LIMIT

\* a field of a feed item: undefined, or markup as a sequence of tokens, each
\* a character of text, a blank or an image tag
Undefined == [present |-> FALSE, text |-> <<>>]

MarkupInputs == {Undefined, Str(<<>>), Str(<<"<img>">>), Str(<<"t">>)}

\* a title one character longer than the slug of an entry id, with a blank
\* where the slug is cut
LongTitle ==
    [k \in 1 .. SLUG_LENGTH + 1 |-> IF k = SLUG_LENGTH THEN " " ELSE "a"]

\* titles of items: "e_acute" stands for the one character e with an acute
\* accent, "zhe" for the Cyrillic letter zhe
TitleInputs ==
    {Undefined, Str(<<>>), Str(<<"!">>), Str(<<"A", " ", "b">>),
     Str(<<" ", "a", "!", "-", "1", " ">>), Str(<<"e_acute">>),
     Str(<<"zhe">>), Str(LongTitle)}

\* items that differ in their bodies and share one title
BodyItems ==
    [title : {Str(<<"A", " ", "b">>)}, contentEncoded : MarkupInputs,
     content : MarkupInputs, summary : MarkupInputs]

\* items that differ in their titles and share one body
TitleItems ==
    [title : TitleInputs, contentEncoded : {Undefined},
     content : {Str(<<"t">>)}, summary : {Undefined}]

ItemInputs == BodyItems \cup TitleItems

\* the item of a feed longer than MaxItems
LongFeedItem ==
    [title |-> Str(<<"A", " ", "b">>), contentEncoded |-> Undefined,
     content |-> Str(<<"t">>), summary |-> Undefined]

\* items.length of a parsed feed: short feeds, and one feed longer than the
\* largest limit
ItemCounts == (0 .. MaxItems) \cup {MAX_LIMIT + 1}

FeedTitleInputs ==
    {Undefined, Str(<<>>), Str(<<"!">>), Str(<<" ", "A", " ", "b">>)}

\* feedUrl.hostname
Hostname == <<"h", ".", "o">>

\* html-to-text convert with images skipped
convert(html) == SelectSeq(html, LAMBDA tok : tok # "<img>")

\* rawHtml of the Hacker News action: a chain of ??
HnRawHtml(item) ==
    IF item.contentEncoded.present THEN item.contentEncoded.text
    ELSE IF item.content.present THEN item.content.text
    ELSE IF item.summary.present THEN item.summary.text
    ELSE <<>>

\* rawHtml of the RSS feed action: a chain of ||
RssRawHtml(item) ==
    IF item.contentEncoded.present /\ item.contentEncoded.text # <<>>
    THEN item.contentEncoded.text
    ELSE IF item.content.present /\ item.content.text # <<>>
    THEN item.content.text
    ELSE IF item.summary.present /\ item.summary.text # <<>>
    THEN item.summary.text
    ELSE <<>>

NO_BODY == <<"(No body content provided by the feed)">>

\* the article page: kind is "throw" (fetch, body read or DOM parse throws),
\* "non2xx", "unreadable" (Readability gives null) or "article" with its
\* textContent
ArticleResp(kind, text) == [kind |-> kind, text |-> text]

ArticleResponses ==
    {ArticleResp("throw", <<>>), ArticleResp("non2xx", <<>>),
     ArticleResp("unreadable", <<>>), ArticleResp("article", <<>>),
     ArticleResp("article", <<"a">>)}

\* an item and the response of its article page
HnInputs ==
    (BodyItems \X ArticleResponses)
        \cup (TitleItems \X {ArticleResp("unreadable", <<>>)})

\* fetchArticleContent: null, or article.textContent
fetchArticleContent(resp) ==
    IF resp.kind = "article" THEN Str(resp.text) ELSE Null

\* textContent of an entry of the RSS feed action
RssTextContent(item) ==
    LET textContent == Trim(convert(RssRawHtml(item)))
    IN  IF Len(textContent) > 0 THEN textContent ELSE NO_BODY

\* textContent of an entry of the Hacker News action
HnTextContent(item, article) ==
    LET textContent == Trim(convert(HnRawHtml(item)))
    IN  IF article.present THEN article.text
        ELSE IF Len(textContent) > 0 THEN textContent ELSE NO_BODY

-----------------------------------------------------------------------------
(* Titles, slugs and entry ids *)

DigitChar(d) ==
    CASE d = 0 -> "0" [] d = 1 -> "1" [] d = 2 -> "2" [] d = 3 -> "3"
      [] d = 4 -> "4" [] d = 5 -> "5" [] d = 6 -> "6" [] d = 7 -> "7"
      [] d = 8 -> "8" [] d = 9 -> "9"

RECURSIVE ToDigits(_)
\* Number.prototype.toString of a natural number
ToDigits(n) ==
    IF n < 10 THEN <<DigitChar(n)>>
    ELSE ToDigits(n \div 10) \o <<DigitChar(n % 10)>>

\* index.toString().padStart(2, "0")
PadStart2(n) ==
    IF Len(ToDigits(n)) < 2 THEN <<"0">> \o ToDigits(n) ELSE ToDigits(n)

\* the title of an entry: the trimmed title of the item, or "Entry n"
EntryTitle(item, n) ==
    IF item.title.present /\ Len(Trim(item.title.text)) > 0
    THEN Trim(item.title.text)
    ELSE <<"E", "n", "t", "r", "y", " ">> \o ToDigits(n)

AsciiLower ==
    {"a", "b", "c", "d", "e", "f", "g", "h", "i", "j", "k", "l", "m", "n",
     "o", "p", "q", "r", "s", "t", "u", "v", "w", "x", "y", "z"}

\* String.prototype.toLowerCase, one character
toLowerCase(c) == CASE c = "A" -> "a" [] c = "E" -> "e" [] OTHER -> c

\* normalize("NFD"), one character: an accented letter becomes the letter
\* and a combining mark
NFD(c) == IF c = "e_acute" THEN <<"e", "combining_acute">> ELSE <<c>>

RECURSIVE Decompose(_)
Decompose(s) ==
    IF s = <<>> THEN <<>> ELSE NFD(toLowerCase(Head(s))) \o Decompose(Tail(s))

\* \p{Letter} or \p{Number}
IsLetterOrNumber(c) == c \in AsciiLower \cup Digits \cup {"e_acute", "zhe"}

RECURSIVE ReplaceRuns(_, _)
\* replace(/[^\p{Letter}\p{Number}]+/gu, "-"): inRun tells that the run
\* read last is already replaced
ReplaceRuns(s, inRun) ==
    IF s = <<>> THEN <<>>
    ELSE IF IsLetterOrNumber(Head(s))
    THEN <<Head(s)>> \o ReplaceRuns(Tail(s), FALSE)
    ELSE IF inRun THEN ReplaceRuns(Tail(s), TRUE)
    ELSE <<"-">> \o ReplaceRuns(Tail(s), TRUE)

RECURSIVE CollapseHyphens(_)
\* replace(/-+/g, "-")
CollapseHyphens(s) ==
    IF Len(s) < 2 THEN s
    ELSE IF s[1] = "-" /\ s[2] = "-" THEN CollapseHyphens(Tail(s))
    ELSE <<Head(s)>> \o CollapseHyphens(Tail(s))

\* replace(/^-|-$/g, ""): one hyphen at the start and one at the end
StripHyphens(s) ==
    LET a == IF s # <<>> /\ Head(s) = "-" THEN Tail(s) ELSE s
    IN  IF a # <<>> /\ a[Len(a)] = "-" THEN SubSeq(a, 1, Len(a) - 1) ELSE a

\* the chain of replacements shared by createEntryId and slugify
SafeTitle(title) ==
    StripHyphens(CollapseHyphens(ReplaceRuns(Decompose(title), FALSE)))

\* safeTitle.slice(0, 48)
ShortSlug(title) ==
    SubSeq(SafeTitle(title), 1, Min(SLUG_LENGTH, Len(SafeTitle(title))))

ENTRY_FALLBACK == <<"entry">>

SLUG_FALLBACK == <<"notebooklm-source">>

createEntryId_NoIndex(n, title) ==
    <<"0", "0", "-">>
        \o (IF Len(ShortSlug(title)) > 0 THEN ShortSlug(title)
            ELSE ENTRY_FALLBACK)

createEntryId(n, title) ==
    PadStart2(n) \o <<"-">>
        \o (IF Len(ShortSlug(title)) > 0 THEN ShortSlug(title)
            ELSE ENTRY_FALLBACK)

slugify(input) ==
    IF Len(SafeTitle(input)) > 0 THEN SafeTitle(input) ELSE SLUG_FALLBACK

-----------------------------------------------------------------------------
(* The archive of a feed resolver: the members of the zip, the entries of   *)
(* manifest.json and the file name                                          *)

NoArchive ==
    [zip |-> {}, manifest |-> <<>>, sources |-> <<>>, fileName |-> <<>>]

\* zip.file(name, ...): a member of that name replaces an older one
ZipFile(zip, name) ==
    {m \in zip : m.name # name} \cup {[name |-> name, dir |-> FALSE]}

\* zip.folder(name)
ZipFolder(zip, name) ==
    {m \in zip : m.name # name} \cup {[name |-> name, dir |-> TRUE]}

\* file of a manifest entry
ManifestFile(t, id) ==
    IF t = "rss" THEN <<"articles/">> \o id \o <<".md">> ELSE id \o <<".md">>

EntryFile_Flat(t, id) == id \o <<".md">>

\* name under which the file of an entry is written
EntryFile(t, id) ==
    IF t = "rss" THEN <<"articles/">> \o id \o <<".md">> ELSE id \o <<".md">>

RECURSIVE WriteEntries(_, _, _)
\* the loop that writes one file for each entry
WriteEntries(zip, t, es) ==
    IF es = <<>> THEN zip
    ELSE WriteEntries(ZipFile(zip, EntryFile(t, Head(es).id)), t, Tail(es))

buildArchive(t, feedTitle, es) ==
    LET manifest == [k \in 1 .. Len(es) |->
                        [id |-> es[k].id, file |-> ManifestFile(t, es[k].id)]]
        withManifest == ZipFile({}, <<"manifest.json">>)
        withFolder == IF t = "rss"
                      THEN ZipFolder(withManifest, <<"articles/">>)
                      ELSE withManifest
        withEntries == WriteEntries(withFolder, t, es)
    IN  [zip |-> ZipFile(withEntries, <<"sources.json">>),
         manifest |-> manifest,
         sources |-> [k \in 1 .. Len(es) |-> es[k].id],
         fileName |-> slugify(feedTitle) \o <<"-", "date", ".zip">>]

-----------------------------------------------------------------------------
(* Actions of the feed resolvers *)

FeedSuccess(total, extracted) ==
    [NoResult EXCEPT !.ok = TRUE, !.status = 200, !.totalEntries = total,
                     !.extractedEntries = extracted]

\* the message of the 502 failure, which quotes response.status
UnreachableMessage(status) ==
    "We couldn't reach that feed (status " \o ToString(status)
        \o "). Please try again later."

UpstreamFailure_NoStatus(status) ==
    Failure(502, "We couldn't reach that feed. Please try again later.")

\* lines 72-80 and 675-683: the failure for a response that is not ok
UpstreamFailure(status) == Failure(502, UnreachableMessage(status))

\* lines 646-665: validate feedUrl, compute the limit
RssValidate ==
    /\ tool = "rss"
    /\ pc = "start"
    /\ IF ~IsString(feedUrlRaw) \/ Len(Trim(feedUrlRaw.text)) = 0
       THEN /\ result' = Failure(400, "Please enter an RSS feed URL.")
            /\ pc' = "done"
            /\ UNCHANGED limit
       ELSE IF ~UrlParses(Trim(feedUrlRaw.text))
       THEN /\ result' = Failure(422, "That doesn't look like a valid URL.")
            /\ pc' = "done"
            /\ UNCHANGED limit
       ELSE /\ limit' = EffectiveLimit(limitRaw)
            /\ pc' = "fetchFeed"
            /\ UNCHANGED result
    /\ UNCHANGED <<tool, sideVars, docVars, ghVars, feedUrlRaw, limitRaw,
                   itemCount, index, articleContent, entries, archive, calls>>

\* lines 35-61: the feed URL is the constant HACKERNEWS_FEED, which parses,
\* so the catch at 42-53 is never entered
HnStart ==
    /\ tool = "hackernews"
    /\ pc = "start"
    /\ limit' = EffectiveLimit(limitRaw)
    /\ pc' = "fetchFeed"
    /\ UNCHANGED <<tool, sideVars, docVars, ghVars, feedUrlRaw, limitRaw,
                   itemCount, index, articleContent, entries, archive, calls,
                   result>>

\* statuses of a response that is not ok
UpstreamStatuses == {404, 503}

\* lines 63-80 and 667-683: the fetch of the feed is outside every try
FetchFeed ==
    /\ tool \in {"rss", "hackernews"}
    /\ pc = "fetchFeed"
    /\ \E kind \in {"throw", "non2xx", "ok"},
          status \in UpstreamStatuses \cup {0, 200} :
        /\ kind = "throw" => status = 0
        /\ kind = "non2xx" => status \in UpstreamStatuses
        /\ kind = "ok" => status = 200
        /\ calls' = Append(calls, Call("GET feed", status, kind))
        /\ IF kind = "throw"
           THEN pc' = "unhandled" /\ UNCHANGED result
           ELSE IF kind = "non2xx"
           THEN /\ result' = UpstreamFailure(status)
                /\ pc' = "done"
           ELSE pc' = "readFeed" /\ UNCHANGED result
    /\ UNCHANGED <<tool, sideVars, docVars, ghVars, feedVars>>

\* lines 82-119 and 685-720: read the body (outside every try), parse it
\* (inside one), test the item count
ReadFeed ==
    /\ tool \in {"rss", "hackernews"}
    /\ pc = "readFeed"
    /\ \E kind \in {"bodyThrows", "parseThrows", "feed"}, n \in ItemCounts :
        /\ kind # "feed" => n = 0
        /\ calls' = Append(calls, Call("read feed", n, kind))
        /\ IF kind = "bodyThrows"
           THEN pc' = "unhandled" /\ UNCHANGED <<result, itemCount>>
           ELSE IF kind = "parseThrows"
           THEN /\ result' = Failure(422, "We couldn't understand that feed")
                /\ pc' = "done"
                /\ UNCHANGED itemCount
           ELSE IF n = 0
           THEN /\ result' = Failure(404, "That feed didn't include any entries")
                /\ pc' = "done"
                /\ UNCHANGED itemCount
           ELSE /\ itemCount' = n
                /\ pc' = "entry"
                /\ UNCHANGED result
    /\ UNCHANGED <<tool, sideVars, docVars, ghVars, feedUrlRaw, limitRaw,
                   limit, index, articleContent, entries, archive>>

SlicedCount_Unlimited == itemCount

\* items.slice(0, limit).length
SlicedCount == Min(itemCount, limit)

\* lines 722-758: one iteration of the loop of the RSS feed action
RssEntry ==
    /\ tool = "rss"
    /\ pc = "entry"
    /\ \E item \in ItemInputs :
        /\ itemCount > MaxItems => item = LongFeedItem
        /\ entries' = Append(entries,
               [id |-> createEntryId(index + 1, EntryTitle(item, index + 1)),
                title |-> EntryTitle(item, index + 1),
                textContent |-> RssTextContent(item)])
    /\ index' = index + 1
    /\ pc' = IF index + 1 < SlicedCount THEN "entry" ELSE "archive"
    /\ UNCHANGED <<tool, sideVars, docVars, ghVars, feedUrlRaw, limitRaw,
                   limit, itemCount, articleContent, archive, calls, result>>

\* lines 121-161 with fetchArticleContent (567-588): one iteration of the
\* loop of the Hacker News action
HnEntry ==
    /\ tool = "hackernews"
    /\ pc = "entry"
    /\ \E pair \in HnInputs :
        LET item == pair[1]
            resp == pair[2]
        IN  /\ itemCount > MaxItems =>
                  item = LongFeedItem /\ resp = ArticleResp("unreadable", <<>>)
            /\ calls' = Append(calls, Call("GET article", index + 1, resp.kind))
            /\ articleContent' = fetchArticleContent(resp)
            /\ entries' = Append(entries,
                   [id |-> createEntryId(index + 1, EntryTitle(item, index + 1)),
                    title |-> EntryTitle(item, index + 1),
                    textContent |->
                        HnTextContent(item, fetchArticleContent(resp))])
    /\ index' = index + 1
    /\ pc' = IF index + 1 < SlicedCount THEN "entry" ELSE "archive"
    /\ UNCHANGED <<tool, sideVars, docVars, ghVars, feedUrlRaw, limitRaw,
                   limit, itemCount, archive, result>>

\* lines 163-195 and 760-790: build the archive, return the summary;
\* sourceTitle is feed.title?.trim() ?? feedUrl.hostname
BuildArchive ==
    /\ tool \in {"rss", "hackernews"}
    /\ pc = "archive"
    /\ \E feedTitle \in FeedTitleInputs :
        LET sourceTitle == IF feedTitle.present THEN Trim(feedTitle.text)
                           ELSE Hostname
        IN  archive' = buildArchive(tool, sourceTitle, entries)
    /\ result' = FeedSuccess(itemCount, Len(entries))
    /\ pc' = "done"
    /\ UNCHANGED <<tool, sideVars, docVars, ghVars, feedUrlRaw, limitRaw,
                   limit, itemCount, index, articleContent, entries, calls>>

-----------------------------------------------------------------------------
(* The repository bundler: the component of the GitHub route.  A path of   *)
(* the zip is the sequence of its segments between slashes, a segment the  *)
(* sequence of its parts between dots, so that ".env" is <<"", "env">>.    *)

DOC_EXTENSIONS == {"pdf", "txt", "md", "docx"}

IMG_EXTENSIONS ==
    {"avif", "bmp", "gif", "ico", "jp2", "png", "webp", "tif", "tiff", "heic",
     "heif", "jpeg", "jpg", "jpe"}

MEDIA_EXTENSIONS ==
    {"3g2", "3gp", "aac", "aif", "aifc", "aiff", "amr", "au", "avi", "cda",
     "m4a", "mid", "mp3", "mp4", "mpeg", "ogg", "opus", "ra", "ram", "snd",
     "wav", "wma"}

CODE_EXTENSIONS ==
    {"js", "ts", "jsx", "tsx", "py", "java", "c", "cpp", "h", "hpp", "cs",
     "go", "rs", "rb", "php", "swift", "kt", "scala", "vue", "svelte", "sql",
     "sh", "bash", "yaml", "yml", "json", "xml", "html", "css", "scss",
     "less", "r", "m", "pl", "pm", "t", "lua", "dart", "elm", "erl", "ex",
     "exs", "fs", "fsx", "hs", "lhs"}

IGNORED_DIRS ==
    {<<"node_modules">>, <<"", "git">>, <<"dist">>, <<"build">>, <<"out">>,
     <<"target">>, <<"vendor">>, <<"bin">>, <<"obj">>, <<"", "idea">>,
     <<"", "vscode">>, <<"__pycache__">>, <<"", "next">>, <<"", "nuxt">>,
     <<"coverage">>}

\* the text of the URL field: "h" stands for the origin of an absolute URL,
\* "/" for a slash, any other token for a name without slashes
RepoUrlInputs ==
    {<<>>, <<" ">>, <<"x">>, <<"h">>, <<"h", "/">>, <<"h", "/", "o">>,
     <<"h", "/", "/", "o">>, <<"h", "/", "o", "/", "repo">>,
     <<" ", "h", "/", "o", "/", "repo", "/">>}

RECURSIVE Split(_, _)
\* String.prototype.split(sep)
Split(s, sep) ==
    IF \A k \in 1 .. Len(s) : s[k] # sep THEN <<s>>
    ELSE LET at == CHOOSE k \in 1 .. Len(s) :
                       s[k] = sep /\ \A j \in 1 .. k - 1 : s[j] # sep
         IN  <<SubSeq(s, 1, at - 1)>> \o Split(SubSeq(s, at + 1, Len(s)), sep)

\* url.pathname of a URL that parses: "/" when the text ends at the origin
Pathname(text) ==
    IF Len(Trim(text)) = 1 THEN <<"/">> ELSE Tail(Trim(text))

RepoParts_Unfiltered(text) == Split(Pathname(text), "/")

\* url.pathname.split("/").filter(Boolean)
RepoParts(text) ==
    SelectSeq(Split(Pathname(text), "/"), LAMBDA part : part # <<>>)

NoRepo == [present |-> FALSE, owner |-> <<>>, name |-> <<>>]

Member(dir, path) == [dir |-> dir, path |-> path]

\* members of an input zip
MemberInputs ==
    {Member(TRUE, <<<<"src">>, <<"">>>>),
     Member(FALSE, <<<<"node_modules">>, <<"x">>, <<"index", "js">>>>),
     Member(FALSE, <<<<"build">>, <<"notes", "md">>>>),
     Member(FALSE, <<<<"", "env">>>>),
     Member(FALSE, <<<<"src">>, <<"app", "py">>>>),
     Member(FALSE, <<<<"src">>, <<"app", "py", "txt">>>>),
     Member(FALSE, <<<<"README", "md">>>>),
     Member(FALSE, <<<<"docs">>, <<"a", "PDF">>>>),
     Member(FALSE, <<<<"logo", "png">>>>),
     Member(FALSE, <<<<"song", "mp3">>>>),
     Member(FALSE, <<<<"Makefile">>>>),
     Member(FALSE, <<<<"data", "bin">>>>),
     Member(FALSE, <<<<"src">>, <<"md">>>>),
     Member(FALSE, <<<<"repo-sha">>, <<"src">>, <<"app", "py">>>>),
     Member(FALSE, <<<<"repo-sha">>, <<"README", "md">>>>),
     Member(FALSE, <<<<"repo-sha", "md">>>>)}

\* Object.entries(inputZip.files): members with pairwise distinct paths
ZipInputs ==
    UNION {{z \in [1 .. n -> MemberInputs] :
                \A a, b \in 1 .. n : a # b => z[a] # z[b]} : n \in 0 .. MaxMembers}

\* pairs <<s, t>> of names of the model with s a proper substring of t
Substrings == {<<"repo", "repo-sha">>}

\* String.prototype.includes on a segment of a path
Includes(segment, name) ==
    \E p \in 1 .. Len(segment), q \in 1 .. Len(name) :
        segment[p] = name[q] \/ <<name[q], segment[p]>> \in Substrings

\* String.prototype.toLowerCase of the last part of a file name
ExtensionLower(part) == IF part = "PDF" THEN "pdf" ELSE part

isIgnored(path) == \E k \in 1 .. Len(path) : path[k] \in IGNORED_DIRS

\* path.split("/").pop() || ""
fileNameOf(path) == path[Len(path)]

\* fileName.startsWith(".")
StartsWithDot(fileName) == Len(fileName) > 1 /\ fileName[1] = ""

\* fileName.split(".").pop()?.toLowerCase() || ""
extensionOf(fileName) == ExtensionLower(fileName[Len(fileName)])

StrippedPath_Always(path, info) == IF Len(path) > 1 THEN Tail(path) ELSE path

\* lines 212-223: the path with the top-level folder removed when that
\* folder names the repository
StrippedPath(path, info) ==
    IF Len(path) > 1 /\ info.present /\ Includes(path[1], info.name)
    THEN Tail(path)
    ELSE path

\* `${targetPath}.txt`
WithTxt(path) == [path EXCEPT ![Len(path)] = @ \o <<"txt">>]

\* lines 225-233: isCode, set in the branch after the one of the documents,
\* images and media
isCodeFile(m) ==
    /\ extensionOf(fileNameOf(m.path))
           \notin DOC_EXTENSIONS \cup IMG_EXTENSIONS \cup MEDIA_EXTENSIONS
    /\ extensionOf(fileNameOf(m.path)) \in CODE_EXTENSIONS

\* lines 203-237: shouldInclude of a member
shouldInclude(m) ==
    /\ ~m.dir
    /\ ~isIgnored(m.path)
    /\ ~StartsWithDot(fileNameOf(m.path))
    /\ extensionOf(fileNameOf(m.path))
           \in DOC_EXTENSIONS \cup IMG_EXTENSIONS \cup MEDIA_EXTENSIONS
                   \cup CODE_EXTENSIONS

\* lines 212-236: targetPath of an included member
targetPathOf(m, info) ==
    IF isCodeFile(m) THEN WithTxt(StrippedPath(m.path, info))
    ELSE StrippedPath(m.path, info)

ZeroStats == [totalFiles |-> 0, includedFiles |-> 0, codeFilesConverted |-> 0]

NoError == "null"

NoSuccess ==
    [present |-> FALSE, source |-> "", stats |-> ZeroStats, files |-> <<>>]

\* lines 260-266: the manifest; generatedAt is left out
NoManifest == [present |-> FALSE, source |-> "", stats |-> ZeroStats,
               files |-> <<>>]

PathsOf(files) == [k \in 1 .. Len(files) |-> files[k].path]

Manifest(info, st, files) ==
    [present |-> TRUE, source |-> IF info.present THEN "github" ELSE "upload",
     stats |-> st, files |-> PathsOf(files)]

\* lines 279-287: the success data handed to the component
SuccessData(info, st, files) ==
    [present |-> TRUE, source |-> IF info.present THEN "github" ELSE "upload",
     stats |-> st, files |-> files]

\* lines 199-200: every entry of the archive counts, directories included
TotalFiles_FilesOnly(zip) == Len(SelectSeq(zip, LAMBDA m : ~m.dir))

TotalFiles(zip) == Len(zip)

\* line 255
NothingIncluded_Never(st) == FALSE

NothingIncluded(st) == st.includedFiles = 0

\* lines 288-295: the catch and the finally of processZip
ProcessZipFails(message) ==
    /\ error' = message
    /\ isProcessing' = FALSE
    /\ pc' = "done"

\* lines 298-315: handleUrlSubmit up to the fetch of the zipball
GhSubmit ==
    /\ tool = "github"
    /\ pc = "start"
    /\ IF Len(Trim(repoUrl)) = 0
       THEN /\ pc' = "done"
            /\ UNCHANGED <<repoInfo, isProcessing, error>>
       ELSE IF ~UrlParses(repoUrl)
       THEN /\ error' = "Invalid URL"
            /\ isProcessing' = FALSE
            /\ pc' = "done"
            /\ UNCHANGED repoInfo
       ELSE IF Len(RepoParts(repoUrl)) < 2
       THEN /\ error' = "Invalid GitHub repository URL"
            /\ isProcessing' = FALSE
            /\ pc' = "done"
            /\ UNCHANGED repoInfo
       ELSE /\ repoInfo' = [present |-> TRUE, owner |-> RepoParts(repoUrl)[1],
                            name |-> RepoParts(repoUrl)[2]]
            /\ isProcessing' = TRUE
            /\ error' = NoError
            /\ pc' = "download"
    /\ UNCHANGED <<tool, sideVars, docVars, feedVars, repoUrl, fileChosen,
                   inputZip, pos, stats, processedFiles, outputZip,
                   successData, downloadUrl, bundleManifest, calls, result>>

\* lines 315-325 and 177-183: the response of the zipball, its body, and
\* processZip up to loadAsync
GhDownload ==
    /\ tool = "github"
    /\ pc = "download"
    /\ \E kind \in {"throw", "404", "non2xx", "bodyThrows", "ok"} :
        /\ calls' = Append(calls, Call("GET zipball", 0, kind))
        /\ IF kind = "ok"
           THEN /\ isProcessing' = TRUE
                /\ error' = NoError
                /\ successData' = NoSuccess
                /\ pc' = "loadZip"
           ELSE /\ error' = (CASE kind = "404" -> "Repository not found or private"
                               [] kind = "non2xx" -> "Failed to download repo"
                               [] OTHER -> "Failed to fetch")
                /\ isProcessing' = FALSE
                /\ pc' = "done"
                /\ UNCHANGED successData
    /\ UNCHANGED <<tool, sideVars, docVars, feedVars, repoUrl, fileChosen,
                   repoInfo, inputZip, pos, stats, processedFiles, outputZip,
                   downloadUrl, bundleManifest, result>>

\* lines 338-343 and 177-183: handleFileUpload, and processZip up to loadAsync
GhUpload ==
    /\ tool = "github"
    /\ pc = "start"
    /\ IF ~fileChosen
       THEN /\ pc' = "done"
            /\ UNCHANGED <<isProcessing, error, successData>>
       ELSE /\ isProcessing' = TRUE
            /\ error' = NoError
            /\ successData' = NoSuccess
            /\ pc' = "loadZip"
    /\ UNCHANGED <<tool, sideVars, docVars, feedVars, repoUrl, fileChosen,
                   repoInfo, inputZip, pos, stats, processedFiles, outputZip,
                   downloadUrl, bundleManifest, calls, result>>

\* lines 183-200: loadAsync and the count of the members
ProcessZipLoad ==
    /\ tool = "github"
    /\ pc = "loadZip"
    /\ \/ /\ ProcessZipFails("Can't find end of central directory")
          /\ UNCHANGED <<inputZip, stats>>
       \/ \E zip \in ZipInputs :
            /\ inputZip' = zip
            /\ stats' = [stats EXCEPT !.totalFiles = TotalFiles(zip)]
            /\ pc' = IF Len(zip) > 0 THEN "member" ELSE "finish"
            /\ UNCHANGED <<error, isProcessing>>
    /\ UNCHANGED <<tool, sideVars, docVars, feedVars, repoUrl, fileChosen,
                   repoInfo, pos, processedFiles, outputZip, successData,
                   downloadUrl, bundleManifest, calls, result>>

\* lines 202-253: one iteration of the loop over the members
ProcessMember ==
    /\ tool = "github"
    /\ pc = "member"
    /\ LET m == inputZip[pos + 1]
           targetPath == targetPathOf(m, repoInfo)
           codeCount == stats.codeFilesConverted
                            + (IF isCodeFile(m) THEN 1 ELSE 0)
       IN  IF ~shouldInclude(m)
           THEN /\ pos' = pos + 1
                /\ pc' = IF pos + 1 < Len(inputZip) THEN "member" ELSE "finish"
                /\ UNCHANGED <<stats, processedFiles, outputZip, error,
                               isProcessing>>
           ELSE \/ /\ ProcessZipFails("Corrupted zip")
                   /\ stats' = [stats EXCEPT !.codeFilesConverted = codeCount]
                   /\ UNCHANGED <<pos, processedFiles, outputZip>>
                \/ /\ outputZip' = ZipFile(outputZip, targetPath)
                   /\ stats' = [stats EXCEPT
                                   !.codeFilesConverted = codeCount,
                                   !.includedFiles = @ + 1]
                   /\ processedFiles' = Append(processedFiles,
                          [path |-> targetPath, name |-> fileNameOf(m.path),
                           originalExtension |-> extensionOf(fileNameOf(m.path)),
                           isCode |-> isCodeFile(m)])
                   /\ pos' = pos + 1
                   /\ pc' = IF pos + 1 < Len(inputZip) THEN "member"
                            ELSE "finish"
                   /\ UNCHANGED <<error, isProcessing>>
    /\ UNCHANGED <<tool, sideVars, docVars, feedVars, repoUrl, fileChosen,
                   repoInfo, inputZip, successData, downloadUrl,
                   bundleManifest, calls, result>>

MANIFEST_PATH == <<<<"notebooklm-manifest", "json">>>>

\* lines 255-295: the test for an empty bundle, the manifest, the output zip
ProcessZipFinish ==
    /\ tool = "github"
    /\ pc = "finish"
    /\ IF NothingIncluded(stats)
       THEN /\ ProcessZipFails("No supported files found in the archive.")
            /\ UNCHANGED <<outputZip, successData, downloadUrl, bundleManifest>>
       ELSE /\ bundleManifest' = Manifest(repoInfo, stats, processedFiles)
            /\ outputZip' = ZipFile(outputZip, MANIFEST_PATH)
            /\ \/ /\ ProcessZipFails("Failed to generate the zip")
                  /\ UNCHANGED <<successData, downloadUrl>>
               \/ /\ downloadUrl' = "blob:"
                  /\ successData' = SuccessData(repoInfo, stats, processedFiles)
                  /\ isProcessing' = FALSE
                  /\ pc' = "done"
                  /\ UNCHANGED error
    /\ UNCHANGED <<tool, sideVars, docVars, feedVars, repoUrl, fileChosen,
                   repoInfo, inputZip, pos, stats, processedFiles, calls,
                   result>>

-----------------------------------------------------------------------------

\* no item is held while a request is resolved as a whole
NoItem == [title |-> Undefined, contentEncoded |-> Undefined,
           content |-> Undefined, summary |-> Undefined]

\* the handlers of the component that start a conversion
Handlers == {"url", "upload"}

\* a handler that is not running, with the locals processZip starts from
\* (lines 183-191)
IdleRun ==
    [at |-> "idle", repoInfo |-> NoRepo, inputZip |-> <<>>, pos |-> 0,
     stats |-> ZeroStats, processedFiles |-> <<>>, outputZip |-> {}]

IdleRuns == [h \in Handlers |-> IdleRun]

Tools == {"llmstxt", "rss", "hackernews", "github"}

\* the form of the route that handles the request; the fields of the other
\* routes are absent
Init ==
    /\ tool \in Tools
    /\ pc = "start"
    /\ siteUrlRaw \in IF tool = "llmstxt" THEN SiteUrlInputs ELSE {Null}
    /\ firecrawlApiKey \in IF tool = "llmstxt" THEN ApiKeyInputs ELSE {Null}
    /\ openrouterApiKey \in IF tool = "llmstxt" THEN ApiKeyInputs ELSE {Null}
    /\ maxUrlsRaw \in IF tool = "llmstxt" THEN MaxUrlsInputs ELSE {Null}
    /\ feedUrlRaw \in IF tool = "rss" THEN FeedUrlInputs ELSE {Null}
    /\ limitRaw \in IF tool \in {"rss", "hackernews"} THEN LimitInputs
                    ELSE {Null}
    /\ limit = 0
    /\ itemCount = 0
    /\ index = 0
    /\ entries = <<>>
    /\ maxUrls = 0
    /\ urls = <<>>
    /\ limitedUrls = <<>>
    /\ i = 0
    /\ scraped = <<>>
    /\ results = <<>>
    /\ articleContent = Null
    /\ archive = NoArchive
    /\ repoUrl \in IF tool = "github" THEN RepoUrlInputs ELSE {<<>>}
    /\ fileChosen \in IF tool = "github" /\ repoUrl = <<>> THEN BOOLEAN
                      ELSE {FALSE}
    /\ repoInfo = NoRepo
    /\ inputZip = <<>>
    /\ pos = 0
    /\ stats = ZeroStats
    /\ processedFiles = <<>>
    /\ outputZip = {}
    /\ isProcessing = FALSE
    /\ error = NoError
    /\ successData = NoSuccess
    /\ downloadUrl = "null"
    /\ bundleManifest = NoManifest
    /\ feedItem = NoItem
    /\ rawHtml = Undefined
    /\ runs = IdleRuns
    /\ calls = <<>>
    /\ result = NoResult

Next ==
    \/ LlmsValidate
    \/ LlmsProbeFull
    \/ MapWebsite
    \/ ScrapeUrl
    \/ GenerateDescription
    \/ Delay
    \/ LlmsProbeShort
    \/ RssValidate
    \/ HnStart
    \/ FetchFeed
    \/ ReadFeed
    \/ RssEntry
    \/ HnEntry
    \/ BuildArchive
    \/ GhSubmit
    \/ GhDownload
    \/ GhUpload
    \/ ProcessZipLoad
    \/ ProcessMember
    \/ ProcessZipFinish

Spec == Init /\ [][Next]_vars

-----------------------------------------------------------------------------
(* The choice of the body of one feed item, on its own: every item of
   BodyItems goes through lines 132-146 or 729-744. *)

\* the locals of the documentation action before a request
DocIdle ==
    /\ siteUrlRaw = Null
    /\ firecrawlApiKey = Null
    /\ openrouterApiKey = Null
    /\ maxUrlsRaw = Null
    /\ maxUrls = 0
    /\ urls = <<>>
    /\ limitedUrls = <<>>
    /\ i = 0
    /\ scraped = <<>>
    /\ results = <<>>

\* the locals of the feed actions before a request
FeedIdle ==
    /\ feedUrlRaw = Null
    /\ limitRaw = Null
    /\ limit = 0
    /\ itemCount = 0
    /\ index = 0
    /\ articleContent = Null
    /\ entries = <<>>
    /\ archive = NoArchive

\* the locals of processZip before a conversion
ZipIdle ==
    /\ fileChosen = FALSE
    /\ repoInfo = NoRepo
    /\ inputZip = <<>>
    /\ pos = 0
    /\ stats = ZeroStats
    /\ processedFiles = <<>>
    /\ outputZip = {}
    /\ bundleManifest = NoManifest

\* lines 151-158: the state of the component when it is mounted
Mounted ==
    /\ isProcessing = FALSE
    /\ error = NoError
    /\ successData = NoSuccess
    /\ downloadUrl = "null"

BodyInit ==
    /\ tool \in {"rss", "hackernews"}
    /\ pc = "body"
    /\ feedItem \in BodyItems
    /\ rawHtml = Undefined
    /\ DocIdle
    /\ FeedIdle
    /\ repoUrl = <<>>
    /\ ZipIdle
    /\ Mounted
    /\ runs = IdleRuns
    /\ calls = <<>>
    /\ result = NoResult

\* hackernews.tsx lines 132-137
HnBody ==
    /\ tool = "hackernews"
    /\ pc = "body"
    /\ rawHtml' = Str(HnRawHtml(feedItem))
    /\ pc' = "bodyDone"
    /\ UNCHANGED <<tool, docVars, feedVars, ghVars, feedItem, runs, calls,
                   result>>

\* hackernews.tsx lines 729-735
RssBody ==
    /\ tool = "rss"
    /\ pc = "body"
    /\ rawHtml' = Str(RssRawHtml(feedItem))
    /\ pc' = "bodyDone"
    /\ UNCHANGED <<tool, docVars, feedVars, ghVars, feedItem, runs, calls,
                   result>>

BodyNext ==
    \/ HnBody
    \/ RssBody

BodySpec == BodyInit /\ [][BodyNext]_vars

-----------------------------------------------------------------------------
(* The component of the GitHub route while it stays mounted: submissions of
   the URL form and changes of the file input follow one another and run
   side by side, each run of a handler with its own locals in runs and all
   of them with the one state of the component.  A handler is followed one
   run at a time. *)

\* what the component leaves alone
requestVars ==
    <<tool, pc, docVars, feedVars, fileChosen, repoInfo, inputZip, pos, stats,
      processedFiles, outputZip, bundleManifest, feedItem, rawHtml, calls,
      result>>

\* texts typed into the URL field that the browser lets through (the field
\* is required and of type url, lines 383-389): a URL without a repository
\* and the URL of a repository
ComponentUrls ==
    {<<"h", "/", "o">>, <<"h", "/", "o", "/", "repo">>}

\* archives handed to processZip: one supported member, or one that is not
ComponentZips ==
    {<<Member(FALSE, <<<<"README", "md">>>>)>>,
     <<Member(FALSE, <<<<"Makefile">>>>)>>}

ComponentInit ==
    /\ tool = "github"
    /\ pc = "mounted"
    /\ repoUrl = <<>>
    /\ Mounted
    /\ runs = IdleRuns
    /\ DocIdle
    /\ FeedIdle
    /\ ZipIdle
    /\ feedItem = NoItem
    /\ rawHtml = Undefined
    /\ calls = <<>>
    /\ result = NoResult

\* lines 177-179
ZipStarts ==
    /\ isProcessing' = TRUE
    /\ error' = NoError
    /\ successData' = NoSuccess

\* lines 288-295 and 330-335: a catch sets the error, and the run is over
RunFails(h, message) ==
    /\ error' = message
    /\ isProcessing' = FALSE
    /\ runs' = [runs EXCEPT ![h] = IdleRun]

\* lines 387 and 298-313: the field is typed and the form submitted; the
\* submit button is disabled while isProcessing (line 392)
SubmitUrl ==
    /\ pc = "mounted"
    /\ ~isProcessing
    /\ runs["url"].at = "idle"
    /\ \E text \in ComponentUrls :
        /\ repoUrl' = text
        /\ IF ~UrlParses(text)
           THEN RunFails("url", "Invalid URL")
           ELSE IF Len(RepoParts(text)) < 2
           THEN RunFails("url", "Invalid GitHub repository URL")
           ELSE /\ runs' = [runs EXCEPT !["url"] =
                       [IdleRun EXCEPT
                           !.at = "download",
                           !.repoInfo = [present |-> TRUE,
                                         owner |-> RepoParts(text)[1],
                                         name |-> RepoParts(text)[2]]]]
                /\ isProcessing' = TRUE
                /\ error' = NoError
    /\ UNCHANGED <<requestVars, successData, downloadUrl>>

\* lines 315-329: the response of the zipball and its body, then processZip
\* up to loadAsync
DownloadRepo ==
    /\ pc = "mounted"
    /\ runs["url"].at = "download"
    /\ \E kind \in {"throw", "404", "non2xx", "bodyThrows", "ok"} :
        IF kind = "ok"
        THEN /\ ZipStarts
             /\ runs' = [runs EXCEPT !["url"].at = "loadZip"]
        ELSE /\ RunFails("url",
                    CASE kind = "404" -> "Repository not found or private"
                      [] kind = "non2xx" -> "Failed to download repo"
                      [] OTHER -> "Failed to fetch")
             /\ UNCHANGED successData
    /\ UNCHANGED <<requestVars, repoUrl, downloadUrl>>

\* lines 338-342: a file is chosen; the file input is never disabled
\* (lines 426-432)
UploadFile ==
    /\ pc = "mounted"
    /\ runs["upload"].at = "idle"
    /\ runs' = [runs EXCEPT !["upload"].at = "buffer"]
    /\ UNCHANGED <<requestVars, repoUrl, isProcessing, error, successData,
                   downloadUrl>>

\* lines 342-343 and 177-183: the file is read, then processZip up to
\* loadAsync
ReadFile ==
    /\ pc = "mounted"
    /\ runs["upload"].at = "buffer"
    /\ ZipStarts
    /\ runs' = [runs EXCEPT !["upload"].at = "loadZip"]
    /\ UNCHANGED <<requestVars, repoUrl, downloadUrl>>

\* lines 183-200 in a run
LoadZip(h) ==
    /\ pc = "mounted"
    /\ runs[h].at = "loadZip"
    /\ \/ /\ RunFails(h, "Can't find end of central directory")
       \/ \E zip \in ComponentZips :
            /\ runs' = [runs EXCEPT
                           ![h].inputZip = zip,
                           ![h].stats.totalFiles = TotalFiles(zip),
                           ![h].at = "member"]
            /\ UNCHANGED <<error, isProcessing>>
    /\ UNCHANGED <<requestVars, repoUrl, successData, downloadUrl>>

\* lines 202-253 in a run
BundleMember(h) ==
    /\ pc = "mounted"
    /\ runs[h].at = "member"
    /\ LET run == runs[h]
           m == run.inputZip[run.pos + 1]
           targetPath == targetPathOf(m, run.repoInfo)
           after == IF run.pos + 1 < Len(run.inputZip) THEN "member"
                    ELSE "finish"
       IN  IF ~shouldInclude(m)
           THEN /\ runs' = [runs EXCEPT ![h].pos = @ + 1, ![h].at = after]
                /\ UNCHANGED <<error, isProcessing>>
           ELSE \/ RunFails(h, "Corrupted zip")
                \/ /\ runs' = [runs EXCEPT
                       ![h].outputZip = ZipFile(@, targetPath),
                       ![h].stats.codeFilesConverted =
                           @ + (IF isCodeFile(m) THEN 1 ELSE 0),
                       ![h].stats.includedFiles = @ + 1,
                       ![h].processedFiles = Append(@,
                           [path |-> targetPath, name |-> fileNameOf(m.path),
                            originalExtension |->
                                extensionOf(fileNameOf(m.path)),
                            isCode |-> isCodeFile(m)]),
                       ![h].pos = @ + 1,
                       ![h].at = after]
                   /\ UNCHANGED <<error, isProcessing>>
    /\ UNCHANGED <<requestVars, repoUrl, successData, downloadUrl>>

\* lines 255-295 in a run
FinishZip(h) ==
    /\ pc = "mounted"
    /\ runs[h].at = "finish"
    /\ IF NothingIncluded(runs[h].stats)
       THEN /\ RunFails(h, "No supported files found in the archive.")
            /\ UNCHANGED <<successData, downloadUrl>>
       ELSE \/ /\ RunFails(h, "Failed to generate the zip")
               /\ UNCHANGED <<successData, downloadUrl>>
            \/ /\ downloadUrl' = "blob:"
               /\ successData' = SuccessData(runs[h].repoInfo, runs[h].stats,
                                             runs[h].processedFiles)
               /\ isProcessing' = FALSE
               /\ runs' = [runs EXCEPT ![h] = IdleRun]
               /\ UNCHANGED error
    /\ UNCHANGED <<requestVars, repoUrl>>

ComponentNext ==
    \/ SubmitUrl
    \/ DownloadRepo
    \/ UploadFile
    \/ ReadFile
    \/ \E h \in Handlers : LoadZip(h)
    \/ \E h \in Handlers : BundleMember(h)
    \/ \E h \in Handlers : FinishZip(h)

ComponentSpec == ComponentInit /\ [][ComponentNext]_vars

-----------------------------------------------------------------------------
(* Vocabulary of the properties, read off the trace and the form *)

FULL == "GET /llms-full.txt"

SHORT == "GET /llms.txt"

CallsOf(op) == SelectSeq(calls, LAMBDA c : c.op = op)

Made(op) == \E k \in 1 .. Len(calls) : calls[k].op = op

\* a key was supplied: a string holding a character that is not a blank
Supplied(key) ==
    key.present /\ \E k \in 1 .. Len(key.text) : key.text[k] \notin Whitespace

CredentialsSupplied == Supplied(firecrawlApiKey) /\ Supplied(openrouterApiKey)

FullProbe(res) ==
    /\ tool = "llmstxt"
    /\ Len(calls) >= 1
    /\ calls[1].op = FULL
    /\ calls[1].res = res

GenerationFailure(r) ==
    ~r.ok /\ r.status = 500 /\ ~r.requiresGeneration /\ r.source = ""

\* the URLs of a sequence of trace entries or of result records
Args(cs) == [k \in 1 .. Len(cs) |-> cs[k].arg]

Urls(rs) == [k \in 1 .. Len(rs) |-> rs[k].url]

ReturnedGenerated ==
    tool = "llmstxt" /\ pc = "done" /\ result.source = "generated"

-----------------------------------------------------------------------------
(* Properties of the documentation resolver *)

\* C1: when the GET of /llms-full.txt returns a 2xx response with a body that
\* is non-empty after trimming, the request ends at once with ok=true and
\* source "llms-full.txt", and the mapping operation is never called, whether
\* or not both API keys were supplied.
C1_FullDocumentReturned ==
    FullProbe("document") =>
        /\ pc = "done"
        /\ result.ok
        /\ result.source = "llms-full.txt"
        /\ ~Made("map")
        /\ Len(calls) = 1

\* C1 witness: a document was delivered to a request that supplied both keys
C1_Witness ==
    FullProbe("document") /\ CredentialsSupplied /\ pc = "done"

\* C2: /llms-full.txt is probed before /llms.txt, and generation (its first
\* call is the mapping call) is attempted only after both probes have failed
\* and with both credentials present.
C2_GenerationAfterBothProbes ==
    tool = "llmstxt" =>
        /\ \A k \in 1 .. Len(calls) :
              calls[k].op = SHORT =>
                  \E j \in 1 .. k - 1 : calls[j].op = FULL
        /\ \A k \in 1 .. Len(calls) :
              calls[k].op = "map" =>
                  /\ \E j \in 1 .. k - 1 :
                        calls[j].op = FULL /\ calls[j].res = "none"
                  /\ \E j \in 1 .. k - 1 :
                        calls[j].op = SHORT /\ calls[j].res = "none"
                  /\ CredentialsSupplied

C4_ExactlyTheScrapedPages ==
    ReturnedGenerated =>
        /\ Urls(results)
              = Args(SelectSeq(calls, LAMBDA c : c.op = "scrape" /\ c.res = "page"))
        /\ result.processedCount
              = Len(SelectSeq(calls, LAMBDA c : c.op = "scrape" /\ c.res = "page"))
        /\ Args(CallsOf("scrape")) = limitedUrls
        /\ \A k \in 1 .. Len(limitedUrls) : limitedUrls[k] = urls[k]
        /\ \A k \in 1 .. Len(results) : results[k].index + 1 = results[k].url

\* C4 witness: three mapped URLs, the scrape of the second fails, the
\* documents hold the first and the third and processedCount is 2
C4_Witness ==
    /\ ReturnedGenerated
    /\ Len(urls) = 3
    /\ Len(limitedUrls) = 3
    /\ [k \in 1 .. 3 |-> CallsOf("scrape")[k].res] = <<"page", "none", "page">>
    /\ Urls(results) = <<1, 3>>
    /\ result.processedCount = 2

\* C5: a page whose scrape succeeded and whose annotation call failed (non-2xx
\* status, exception, missing or malformed content) is in the results with
\* title "Page" and description "No description available"; the failure
\* neither removes a page nor aborts the pipeline.
C5_AnnotationFailureKeepsPage ==
    tool = "llmstxt" =>
        /\ \A k \in 1 .. Len(calls) :
              (calls[k].op = "annotate" /\ calls[k].res = "failure") =>
                  \E r \in 1 .. Len(results) :
                      /\ results[r].url = calls[k].arg
                      /\ results[r].title = "Page"
                      /\ results[r].description = "No description available"
        /\ Len(results) = Len(CallsOf("annotate"))
        /\ (pc = "done" /\ Made("annotate")) =>
              /\ result.ok
              /\ result.source = "generated"
              /\ Args(CallsOf("scrape")) = limitedUrls

\* C5 witness: the annotation of the first of two pages failed and the
\* pipeline went on to return both
C5_Witness ==
    /\ ReturnedGenerated
    /\ Len(results) = 2
    /\ CallsOf("annotate")[1].res = "failure"
    /\ results[1].title = "Page"

\* C6: a 500ms delay separates the processing of every URL from the
\* processing of the next one, whether or not its scrape succeeded, and no
\* delay follows the last URL.
C6_DelayBetweenUrls ==
    tool = "llmstxt" =>
        /\ \A k \in 2 .. Len(calls) :
              calls[k].op = "scrape" =>
                  \/ calls[k - 1].op = "map"
                  \/ calls[k - 1].op = "delay" /\ calls[k - 1].arg = 500
        /\ pc = "done" /\ calls # <<>> => calls[Len(calls)].op # "delay"

\* C7: the page bound passed to generateLLMsFullTxt, and on to the mapping
\* call, is in 1..50 for every maxUrls field, and is 20 when the field is
\* absent or does not parse.
C7_PageBoundInRange ==
    \A k \in 1 .. Len(calls) :
        calls[k].op = "map" =>
            /\ calls[k].arg \in 1 .. 50
            /\ calls[k].arg = maxUrls
            /\ (~maxUrlsRaw.present
                    \/ maxUrlsRaw.text = <<>>
                    \/ maxUrlsRaw.text[1] \notin Digits \cup {"-", "+", " "})
                  => calls[k].arg = 20

\* C8: one generation request scrapes at most 50 pages, whatever the maxUrls
\* field and however many URLs the mapping service returns.
C8_AtMostFiftyScrapes ==
    Len(CallsOf("scrape")) <= 50

\* C9: a resolution of a valid site URL that obtains no document ends with
\* the failure that reports that no document was found and carries
\* requiresGeneration.
C9_EveryFailureAsksForGeneration ==
    (tool = "llmstxt" /\ pc = "done" /\ calls # <<>> /\ ~result.ok) =>
        /\ result.status = 404
        /\ result.requiresGeneration

\* C9 as amended: without an attempt at generation the failure is the 404
\* result that carries requiresGeneration; a failed generation is reported
\* as such, with status 500 and without requiresGeneration.
C9_FailureByBranch ==
    (tool = "llmstxt" /\ pc = "done" /\ calls # <<>> /\ ~result.ok) =>
        IF Made("map")
        THEN GenerationFailure(result)
        ELSE /\ result.status = 404
             /\ result.requiresGeneration
             /\ result.source = ""
             /\ Made(SHORT)

\* C9 witness: both probes failed in a request without credentials
C9_Witness ==
    /\ FullProbe("none")
    /\ pc = "done"
    /\ Len(calls) = 2
    /\ calls[2].op = SHORT
    /\ calls[2].res = "none"
    /\ result.requiresGeneration

\* C10: every request of every resolver ends by returning a structured
\* result; no exception leaves the action.
C10_NoExceptionEscapes ==
    pc # "unhandled"

-----------------------------------------------------------------------------
(* Vocabulary of the properties of the feed resolvers and of the bundler *)

FeedTools == {"rss", "hackernews"}

\* the text of the URL field the request needs; an absent field is empty
UrlField ==
    CASE tool = "rss" -> IF feedUrlRaw.present THEN feedUrlRaw.text ELSE <<>>
      [] tool = "llmstxt" -> IF siteUrlRaw.present THEN siteUrlRaw.text ELSE <<>>
      [] tool = "github" -> repoUrl
      [] OTHER -> <<"h">>

\* the field is empty once the blanks around it are dropped
BlankUrlField == Trim(UrlField) = <<>>

\* the field holds text that is not a URL
UnparseableUrlField == ~BlankUrlField /\ Head(Trim(UrlField)) # "h"

\* the names between the slashes of the path of the URL
PathSegments ==
    {k \in 2 .. Len(Trim(UrlField)) : Trim(UrlField)[k] \notin {"/", " "}}

InvalidUrlField ==
    \/ BlankUrlField
    \/ UnparseableUrlField
    \/ tool = "github" /\ Cardinality(PathSegments) < 2

\* the request has got past the computation of the limit
LimitComputed ==
    /\ tool \in FeedTools
    /\ pc # "start"
    /\ ~(tool = "rss" /\ InvalidUrlField)

\* what the fetch of the feed and the read of its body gave, "" before
FeedFetch == IF Made("GET feed") THEN CallsOf("GET feed")[1].res ELSE ""

FeedRead == IF Made("read feed") THEN CallsOf("read feed")[1].res ELSE ""

\* items.length of the feed that was read
UpstreamItems == IF Made("read feed") THEN CallsOf("read feed")[1].arg ELSE 0

\* no entry was processed and no archive built
NothingProcessed ==
    /\ entries = <<>>
    /\ archive = NoArchive
    /\ ~Made("GET article")

Failed(status) == ~result.ok /\ result.status = status

\* ^[a-z0-9]+(-[a-z0-9]+)*$
WellFormedSlug(s) ==
    /\ s # <<>>
    /\ \A k \in 1 .. Len(s) : s[k] \in AsciiLower \cup Digits \cup {"-"}
    /\ s[1] # "-"
    /\ s[Len(s)] # "-"
    /\ \A k \in 1 .. Len(s) - 1 : ~(s[k] = "-" /\ s[k + 1] = "-")

\* an entry id after its two digits and its hyphen
SlugPart(id) == SubSeq(id, 4, Len(id))

\* the file name of the archive before the date and the suffix
FileSlug == SubSeq(archive.fileName, 1, Len(archive.fileName) - 3)

\* names of the files of the archive
ArchiveFiles == {m.name : m \in {f \in archive.zip : ~f.dir}}

\* a file name has an extension when a dot divides it
HasExtension(fileName) == Len(fileName) > 1

\* the bundler's rule as the documentation states it
Supported(m) ==
    /\ ~m.dir
    /\ \A k \in 1 .. Len(m.path) : m.path[k] \notin IGNORED_DIRS
    /\ fileNameOf(m.path)[1] # ""
    /\ HasExtension(fileNameOf(m.path))
    /\ ExtensionLower(fileNameOf(m.path)[Len(fileNameOf(m.path))])
           \in DOC_EXTENSIONS \cup IMG_EXTENSIONS \cup MEDIA_EXTENSIONS
                   \cup CODE_EXTENSIONS

-----------------------------------------------------------------------------
(* The feed resolvers and the bundler: C11 to C20 *)

\* C11: in the RSS feed resolver, the documentation resolver and the GitHub
\* URL handler a request whose URL field is empty, is not a URL or (GitHub)
\* has fewer than two path segments makes no network call: the handler never
\* gets to a fetch, and it ends without a success.
C11_NoFetchOnInvalidUrl ==
    InvalidUrlField =>
        /\ calls = <<>>
        /\ ~fileChosen => pc \in {"start", "done"}
        /\ (pc = "done" /\ ~fileChosen) =>
               IF tool = "github" THEN ~successData.present /\ ~isProcessing
               ELSE ~result.ok /\ result.status \in 400 .. 499

\* C11 witness: the GitHub handler has rejected a URL with one path segment
C11_Witness ==
    /\ tool = "github"
    /\ repoUrl = <<"h", "/", "/", "o">>
    /\ pc = "done"
    /\ error = "Invalid GitHub repository URL"
    /\ calls = <<>>

\* the checks of a feed resolver after the URL: upstream status, parse, item
\* count, in this order, each failing with its own status and before any
\* entry is processed
C12_LaterChecks ==
    (tool \in FeedTools /\ pc = "done" /\ ~(tool = "rss" /\ InvalidUrlField)) =>
        /\ FeedFetch = "non2xx" =>
               /\ Failed(502)
               /\ result.error =
                      "We couldn't reach that feed (status "
                          \o ToString(CallsOf("GET feed")[1].arg)
                          \o "). Please try again later."
               /\ ~Made("read feed")
               /\ NothingProcessed
        /\ FeedRead = "parseThrows" => Failed(422) /\ NothingProcessed
        /\ (FeedRead = "feed" /\ UpstreamItems = 0) =>
               Failed(404) /\ NothingProcessed
        /\ (FeedRead = "feed" /\ UpstreamItems > 0) => result.ok
        /\ ~result.ok => NothingProcessed

\* C12 as stated: a feed resolver checks URL validity, upstream status, parse
\* and item count in this order and the first failing check alone decides the
\* result: an invalid URL gives a 500-class failure, a non-2xx upstream 502
\* with the upstream status in the message, a parse failure 422, zero items
\* 404, and in each case no entry is processed and no archive is built.
C12_InvalidUrlIs500 ==
    /\ (tool = "rss" /\ pc = "done" /\ InvalidUrlField) =>
           /\ ~result.ok
           /\ result.status \in 500 .. 599
           /\ calls = <<>>
           /\ NothingProcessed
    /\ C12_LaterChecks

\* C12 as amended: the same order of checks, with an empty feed URL failing
\* with 400 and an unparseable one with 422; the 500 of the Hacker News
\* variant guards a constant URL and is never returned.
C12_FirstFailingCheckDecides ==
    /\ (tool = "rss" /\ pc = "done" /\ InvalidUrlField) =>
           /\ IF BlankUrlField THEN Failed(400) ELSE Failed(422)
           /\ calls = <<>>
           /\ NothingProcessed
    /\ (tool = "hackernews" /\ pc = "done") => result.status # 500
    /\ C12_LaterChecks

\* C12 witness: the upstream answered 503 and the resolver returned 502
C12_Witness ==
    /\ tool = "rss"
    /\ pc = "done"
    /\ FeedFetch = "non2xx"
    /\ CallsOf("GET feed")[1].arg = 503
    /\ result.status = 502

\* the limit the documentation gives for each text of the count field
C13_Documented(raw) ==
    CASE ~raw.present -> 15
      [] raw.text = <<>> -> 15
      [] raw.text = <<"a">> -> 15
      [] raw.text = <<"2", ".", "9">> -> 15
      [] raw.text = <<"0">> -> 1
      [] raw.text = <<"-", "1">> -> 1
      [] raw.text = <<"1">> -> 1
      [] raw.text = <<"2">> -> 2
      [] raw.text = <<"4", "0">> -> 40
      [] raw.text = <<"4", "1">> -> 40

\* C13: the effective count of both feed variants is min(max(parsed, 1), 40)
\* when the field parses as an integer and 15 for every other input: an
\* absent field, an empty one, text that is not a number, fractional text.
C13_EffectiveLimit ==
    LimitComputed => limit = C13_Documented(limitRaw)

\* C14: in the Hacker News variant a feed of n >= 1 items read with limit L
\* gives, whatever the article fetches do, a success with min(n, L) entries
\* in feed order, totalEntries n and extractedEntries min(n, L); an article
\* that cannot be fetched removes neither its item nor a later one.
C14_EveryItemKept ==
    (tool = "hackernews" /\ FeedRead = "feed" /\ UpstreamItems > 0) =>
        /\ pc \in {"entry", "archive", "done"}
        /\ Len(entries) <= Min(UpstreamItems, limit)
        /\ Len(CallsOf("GET article")) = Len(entries)
        /\ \A k \in 1 .. Len(entries) :
               /\ CallsOf("GET article")[k].arg = k
               /\ SubSeq(entries[k].id, 1, 2) =
                      <<DigitChar(k \div 10), DigitChar(k % 10)>>
        /\ pc = "done" =>
               /\ result.ok
               /\ Len(entries) = Min(UpstreamItems, limit)
               /\ result.totalEntries = UpstreamItems
               /\ result.extractedEntries = Min(UpstreamItems, limit)

\* C14 witness: two items, the article of the first could not be fetched, and
\* both are entries of the result
C14_Witness ==
    /\ tool = "hackernews"
    /\ pc = "done"
    /\ result.ok
    /\ UpstreamItems = 2
    /\ Len(entries) = 2
    /\ CallsOf("GET article")[1].res = "throw"

\* C15: every entry of either variant has a textContent that is not empty,
\* whatever the extractor gave (null, the empty string, text) and whatever
\* the body of the feed item.
C15_TextContentNeverEmpty ==
    \A k \in 1 .. Len(entries) : entries[k].textContent # <<>>

\* C16: fetchArticleContent gives null for a response that is not 2xx, for an
\* exception and for an extraction without content, and text that is not
\* empty in every other case.
C16_NullOrText ==
    (tool = "hackernews" /\ Made("GET article")) =>
        /\ calls[Len(calls)].res \in {"throw", "non2xx", "unreadable"} =>
               ~articleContent.present
        /\ articleContent.present => articleContent.text # <<>>

\* C17: the ids of the entries of a list are pairwise distinct, also when
\* titles are identical or clean to the same or to an empty slug.
C17_EntryIdsDistinct ==
    \A a, b \in 1 .. Len(entries) :
        a # b => entries[a].id # entries[b].id

\* C17 witness: a list of 40 entries with identical titles
C17_Witness ==
    /\ pc = "done"
    /\ Len(entries) = MAX_LIMIT
    /\ \A k \in 1 .. Len(entries) : entries[k].title = entries[1].title

\* C18: the slug of slugify and the slug part of an entry id, after the
\* truncation to 48 characters, match ^[a-z0-9]+(-[a-z0-9]+)*$ or are the
\* fallback.
C18_SlugsWellFormed ==
    /\ \A k \in 1 .. Len(entries) :
           \/ WellFormedSlug(SlugPart(entries[k].id))
           \/ SlugPart(entries[k].id) = ENTRY_FALLBACK
    /\ archive # NoArchive =>
           WellFormedSlug(FileSlug) \/ FileSlug = SLUG_FALLBACK

\* C19: the archive of a success holds manifest.json, sources.json and one
\* file for each entry; the manifest has as many entries as there are entry
\* files and as extractedEntries says, which need not be the number of items
\* upstream; the file of every manifest entry is a file of the archive.
C19_ArchiveMatchesManifest ==
    (tool \in FeedTools /\ pc = "done" /\ result.ok) =>
        /\ <<"manifest.json">> \in ArchiveFiles
        /\ <<"sources.json">> \in ArchiveFiles
        /\ Cardinality(ArchiveFiles \ {<<"manifest.json">>, <<"sources.json">>})
               = Len(entries)
        /\ Len(archive.manifest) = Len(entries)
        /\ result.extractedEntries = Len(entries)
        /\ \A k \in 1 .. Len(archive.manifest) :
               /\ archive.manifest[k].id = entries[k].id
               /\ archive.manifest[k].file \in ArchiveFiles

\* C19 witness: an archive of the RSS variant with one entry of a feed of two
\* items
C19_Witness ==
    /\ tool = "rss"
    /\ pc = "done"
    /\ result.totalEntries = 2
    /\ result.extractedEntries = 1
    /\ Cardinality(ArchiveFiles) = 3

\* C20: the bundler includes a member exactly when it is not a directory, no
\* component of its path is an ignored directory, its name does not start
\* with a dot and its lowercased extension is a document, image, media or
\* code extension; codeFilesConverted counts the included members with a
\* code extension, which are written with ".txt" appended.
C20_IncludedIffSupported ==
    (tool = "github" /\ (pc \in {"member", "finish"} \/ successData.present)) =>
        /\ Len(processedFiles) =
               Cardinality({k \in 1 .. pos : Supported(inputZip[k])})
        /\ stats.codeFilesConverted =
               Cardinality({k \in 1 .. pos :
                   /\ Supported(inputZip[k])
                   /\ ExtensionLower(
                          fileNameOf(inputZip[k].path)[
                              Len(fileNameOf(inputZip[k].path))])
                          \in CODE_EXTENSIONS})
        /\ \A k \in 1 .. Len(processedFiles) :
               processedFiles[k].isCode =>
                   processedFiles[k].path[Len(processedFiles[k].path)]
                       = processedFiles[k].name \o <<"txt">>

-----------------------------------------------------------------------------
(* The bundler's archive, the order of the calls and the end of a
   resolution: C21 to C30 *)

\* the files of the output archive other than the manifest
BundledFiles == {f.name : f \in {g \in outputZip : ~g.dir}} \ {MANIFEST_PATH}

NO_SUPPORTED_FILES == "No supported files found in the archive."

\* C21: when the loop over the members ends with no member included,
\* processZip ends with the error "No supported files found in the
\* archive.", and with no success data, no manifest, no file in the output
\* archive and the download URL it started with.
C21_NoSupportedFiles ==
    [][(tool = "github" /\ pc = "finish" /\ processedFiles = <<>>) =>
           /\ pc' = "done"
           /\ error' = NO_SUPPORTED_FILES
           /\ ~isProcessing'
           /\ ~successData'.present
           /\ ~bundleManifest'.present
           /\ outputZip' = {}
           /\ downloadUrl' = downloadUrl]_vars

\* C21 witness: a conversion of an archive with members, none of them
\* supported, has ended with that error
C21_Witness ==
    /\ tool = "github"
    /\ pc = "done"
    /\ Len(inputZip) > 0
    /\ pos = Len(inputZip)
    /\ processedFiles = <<>>
    /\ error = NO_SUPPORTED_FILES
    /\ outputZip = {}

\* C22: every output archive of a successful conversion holds the manifest
\* and one file for each included member, so the number of its other files
\* is includedFiles.
C22_OneFilePerIncludedMember ==
    (tool = "github" /\ successData.present) =>
        /\ MANIFEST_PATH \in {f.name : f \in outputZip}
        /\ Cardinality(BundledFiles) = successData.stats.includedFiles

\* C23: at the end of a successful conversion includedFiles is the number
\* of records and the length of the manifest's list of files,
\* codeFilesConverted is the number of records of code files, and
\* codeFilesConverted <= includedFiles <= totalFiles, where totalFiles counts
\* every member of the input archive, directories and ignored members
\* included.
C23_StatsAgree ==
    (tool = "github" /\ successData.present) =>
        LET st == successData.stats
        IN  /\ st.includedFiles = Len(successData.files)
            /\ bundleManifest.present
            /\ st.includedFiles = Len(bundleManifest.files)
            /\ bundleManifest.stats = st
            /\ st.codeFilesConverted =
                   Cardinality({k \in 1 .. Len(successData.files) :
                                    successData.files[k].isCode})
            /\ st.codeFilesConverted <= st.includedFiles
            /\ st.includedFiles <= st.totalFiles
            /\ st.totalFiles = Len(inputZip)

\* C23 witness: a successful conversion of a directory and a code file
C23_Witness ==
    /\ tool = "github"
    /\ successData.present
    /\ \E k \in 1 .. Len(inputZip) : inputZip[k].dir
    /\ successData.stats = [totalFiles |-> 2, includedFiles |-> 1,
                            codeFilesConverted |-> 1]

\* the output path of a record without the ".txt" added to a code file
Unsuffixed(rec) ==
    IF rec.isCode
    THEN [rec.path EXCEPT ![Len(rec.path)] = SubSeq(@, 1, Len(@) - 1)]
    ELSE rec.path

\* the first segment of a path is left out of the output path
RootOmitted(m) ==
    /\ repoInfo.present
    /\ Len(m.path) > 1
    /\ Includes(m.path[1], repoInfo.name)

\* C24: the output path of an included member leaves out the first segment
\* of its path exactly when the identity of a repository was supplied, the
\* path has more than one segment and the first segment contains the name of
\* the repository; an upload is never stripped; the tests of the ignored
\* directories and of the leading dot are those of the original path.
\* (While every member so far was included, the k-th record is the one of
\* the k-th member.)
C24_RootStrippedOnlyForRepository ==
    (tool = "github" /\ Len(processedFiles) = pos) =>
        \A k \in 1 .. pos :
            LET m == inputZip[k]
            IN  /\ Unsuffixed(processedFiles[k])
                       = IF RootOmitted(m) THEN Tail(m.path) ELSE m.path
                /\ ~repoInfo.present => Unsuffixed(processedFiles[k]) = m.path
                /\ \A j \in 1 .. Len(m.path) : m.path[j] \notin IGNORED_DIRS
                /\ fileNameOf(m.path)[1] # ""

\* C24 witness: a conversion of a repository's archive wrote the code file
\* repo-sha/src/app.py as src/app.py.txt and kept the one-segment path
\* repo-sha.md
C24_Witness ==
    /\ tool = "github"
    /\ successData.present
    /\ repoInfo.present
    /\ Len(processedFiles) = 2
    /\ inputZip[1].path = <<<<"repo-sha">>, <<"src">>, <<"app", "py">>>>
    /\ processedFiles[1].path = <<<<"src">>, <<"app", "py", "txt">>>>
    /\ inputZip[2].path = <<<<"repo-sha", "md">>>>
    /\ processedFiles[2].path = <<<<"repo-sha", "md">>>>

\* the candidates of an item's body, in the order of the documentation
Candidates(it) == <<it.contentEncoded, it.content, it.summary>>

NonEmpty(field) == field.present /\ field.text # <<>>

\* the first candidate that is not empty, or the empty text
FirstNonEmpty(it) ==
    IF \E k \in 1 .. 3 : NonEmpty(Candidates(it)[k])
    THEN Candidates(it)[CHOOSE k \in 1 .. 3 :
             /\ NonEmpty(Candidates(it)[k])
             /\ \A j \in 1 .. k - 1 : ~NonEmpty(Candidates(it)[j])].text
    ELSE <<>>

\* C25: in both feed variants the raw body of an item is the first of
\* content-encoded, content and summary that is not empty, and the
\* normalized body is empty only when the three of them are empty.
C25_FirstNonEmptyCandidate ==
    (tool \in FeedTools /\ pc = "bodyDone") =>
        /\ rawHtml.text = FirstNonEmpty(feedItem)
        /\ Trim(convert(rawHtml.text)) = <<>> =>
               \A k \in 1 .. 3 : ~NonEmpty(Candidates(feedItem)[k])

\* the calls of the loop of the generation, in order
LoopCalls == SelectSeq(calls, LAMBDA c : c.op \in {"scrape", "annotate"})

\* C26: the calls of one resolution are made one after the other and in the
\* order of the list: the article of item k is the k-th article fetched, and
\* after the feed was fetched and read; in the generation an annotation
\* directly follows the scrape of the same URL, which returned a page, and a
\* scrape follows the calls of earlier URLs only (the URLs of the mapping
\* are numbered in the order of the list).
C26_OneItemAtATime ==
    /\ tool = "hackernews" =>
           \A k \in 1 .. Len(calls) :
               calls[k].op = "GET article" =>
                   /\ k > 2
                   /\ calls[k].arg = k - 2
                   /\ calls[1].op = "GET feed"
                   /\ calls[2].op = "read feed"
    /\ tool = "llmstxt" =>
           \A k \in 1 .. Len(LoopCalls) :
               /\ LoopCalls[k].op = "annotate" =>
                      /\ k > 1
                      /\ LoopCalls[k - 1].op = "scrape"
                      /\ LoopCalls[k - 1].arg = LoopCalls[k].arg
                      /\ LoopCalls[k - 1].res = "page"
               /\ (LoopCalls[k].op = "scrape" /\ k > 1) =>
                      LoopCalls[k - 1].arg < LoopCalls[k].arg

\* C26 witness: a generation scraped and annotated two URLs, the second of
\* them after a scrape of the first that gave nothing was passed over
C26_Witness ==
    /\ tool = "llmstxt"
    /\ pc = "done"
    /\ Len(LoopCalls) = 4
    /\ LoopCalls[1].res = "none"
    /\ LoopCalls[2].op = "scrape"
    /\ LoopCalls[3].op = "annotate"
    /\ LoopCalls[4].op = "scrape"
    /\ LoopCalls[4].arg = 3

\* the bundler began a conversion: a submission of a blank URL field and a
\* change of the file input that chose no file do nothing
Asked == repoInfo.present \/ inputZip # <<>>

\* the resolution has ended with a result of success or of failure
Ended ==
    /\ pc = "done"
    /\ tool # "github" => (result.ok \/ result.status >= 400)
    /\ (tool = "github" /\ Asked) =>
           /\ ~isProcessing
           /\ error # NoError \/ successData.present

\* C27: a resolution whose calls all return or fail goes on until it has
\* ended with a result of success or of failure: it never stops before.
C27_EndsWithAResult ==
    Ended \/ ENABLED Next

\* C28: a generated result has at least one page; a generation whose scrapes
\* all fail or give nothing is a failure.
C28_GeneratedHasAPage ==
    (tool = "llmstxt" /\ pc = "done" /\ result.ok
         /\ result.source = "generated") =>
        result.processedCount >= 1

\* a conversion is in flight: the download of a repository or a run of
\* processZip
InFlight(h) == runs[h].at \in {"download", "loadZip", "member", "finish"}

\* C29: whatever submissions and uploads the component has gone through,
\* error and successData are never both set.
C29_ErrorOrSuccess ==
    ~(error # NoError /\ successData.present)

\* C30: isProcessing is true while a conversion is in flight, under every
\* interleaving of a submission of the URL form with an upload.
C30_ProcessingWhileInFlight ==
    (\E h \in Handlers : InFlight(h)) => isProcessing

====
